---------------------------- MODULE Spec2Model ----------------------------
(***************************************************************************)
(* Verification model of the LRAUV simulator plugins:                      *)
(*   - WorldCommPlugin   (Configure, SpawnCallback)                        *)
(*   - TethysCommPlugin  (CommandCallback, PostUpdate)                     *)
(*   - FinLiftDragPrivateData::interpolate                                 *)
(*   - CommsPacket conversions (exercised by CommsPacketConversions test)  *)
(* Each plugin has its own specification (SpecWorld, SpecTethys, SpecFin,  *)
(* SpecComms); the variables of the other plugins stay at their initial    *)
(* values.                                                                 *)
(***************************************************************************)
EXTENDS Integers, Sequences, FiniteSets, TLC

VARIABLES
    \* ---- WorldCommPlugin ----
    cfgPc,                      \* position of Configure on the simulation thread
    subscribed,                 \* node.Subscribe(spawnTopic, ...) succeeded
    worldHasCoords,             \* sphericalCoordinates(worldEntity, ecm).has_value()
    topicWorldName,             \* local of Configure
    createService,              \* this->createService
    performerService,           \* this->performerService
    setSphericalCoordsService,  \* this->setSphericalCoordsService
    hasWorldLatLon,             \* this->hasWorldLatLon
    pc,                         \* position of SpawnCallback on each transport thread
    local,                      \* locals of SpawnCallback on each transport thread
    processed,                  \* history: spawn messages handed to SpawnCallback
    requests,                   \* history: the node.Request calls made for each of them
    \* ---- TethysCommPlugin ----
    prevSubPrintTime,           \* this->prevSubPrintTime, in seconds
    prevPubPrintTime,           \* this->prevPubPrintTime, in milliseconds
    commands,                   \* history: command messages handed to CommandCallback
    setpoints,                  \* history: the Publish calls made for each of them
    simTime,                    \* _info.simTime, in milliseconds
    updates,                    \* history: number of PostUpdate calls
    stateMsgs,                  \* history: state messages published, in order
    \* ---- FinLiftDragPrivateData::interpolate ----
    finPc,                      \* "call" before the call, "returned" after it
    spline,                     \* the _spline argument (std::map<double, double>)
    angle,                      \* the _angle argument
    rightPoint,                 \* the locals rightVal and rightAng
    coeff,                      \* what the caller receives
    \* ---- CommsPacket conversions ----
    commsPc,                    \* position in the conversion sequence
    acousticMsg,                \* the external LRAUVAcousticMessage
    txPos,                      \* position given to CommsPacket::make
    txTime,                     \* time of transmission given to CommsPacket::make
    packet,                     \* CommsPacket::make(msg, position, time)
    encoded,                    \* packet.ToInternalMsg()
    packet2,                    \* CommsPacket::make(encoded)
    decoded                     \* packet.ToExternalMsg()

worldVars == <<cfgPc, subscribed, worldHasCoords, topicWorldName, createService,
               performerService, setSphericalCoordsService, hasWorldLatLon,
               pc, local, processed, requests>>

tethysVars == <<prevSubPrintTime, prevPubPrintTime, commands, setpoints,
                simTime, updates, stateMsgs>>

finVars == <<finPc, spline, angle, rightPoint, coeff>>

commsVars == <<commsPc, acousticMsg, txPos, txTime, packet, encoded, packet2, decoded>>

vars == <<worldVars, tethysVars, finVars, commsVars>>

-----------------------------------------------------------------------------
(* Bounds *)

\* transport threads that may run SpawnCallback at the same time
NumThreads == 2
\* spawn messages delivered in one behaviour
MaxMsgs == 2
\* command messages delivered in one behaviour
MaxCmds == 2
\* simulation steps in one behaviour
MaxSteps == 3

-----------------------------------------------------------------------------
(* WorldCommPlugin *)

Threads == 1..NumThreads

\* LRAUVInit messages: the id_ field is optional (has_id_); pos holds
\* initLat_, initLon_ and initZ_
SpawnMsgs ==
    { [hasId |-> TRUE,  id |-> "tethys1", pos |-> <<36, -122, 10>>],
      [hasId |-> TRUE,  id |-> "tethys2", pos |-> <<37, -121, 25>>],
      [hasId |-> FALSE, id |-> "",        pos |-> <<35, -120, 5>>] }

\* world names the ECM may give Configure; "" stands for a missing world
\* entity or a world without a name
WorldNames == {"", "lrauv world", "~"}

\* gz::transport::TopicUtils::AsValidTopic: blanks become underscores, a name
\* that is still no valid topic gives the empty string
AsValidTopic(w) ==
    CASE w = "lrauv world" -> "lrauv_world"
      [] OTHER             -> ""

\* node.Request(service, req, cb, this): an empty service name is no valid
\* topic and is refused; any other request is accepted or refused
RequestOutcomes(service) == IF service = "" THEN {FALSE} ELSE {TRUE, FALSE}

NoLocal == [msg |-> 0, lat |-> 0, lon |-> 0, ele |-> 0]

WorldStart ==
    /\ cfgPc = "start"
    /\ subscribed = FALSE
    /\ worldHasCoords \in BOOLEAN
    /\ topicWorldName = ""
    /\ createService = ""
    /\ performerService = ""
    /\ setSphericalCoordsService = ""
    /\ hasWorldLatLon = FALSE
    /\ pc = [t \in Threads |-> "idle"]
    /\ local = [t \in Threads |-> NoLocal]
    /\ processed = <<>>
    /\ requests = <<>>

\* interpolate not called
FinAtRest ==
    /\ finPc = "unused"
    /\ spline = <<>>
    /\ angle = 0
    /\ rightPoint = [val |-> 0, ang |-> 0]
    /\ coeff = [defined |-> FALSE, value |-> 0]

\* no packet converted
CommsAtRest ==
    /\ commsPc = "unused"
    /\ acousticMsg = <<>>
    /\ txPos = <<>>
    /\ txTime = 0
    /\ packet = <<>>
    /\ encoded = <<>>
    /\ packet2 = <<>>
    /\ decoded = <<>>

\* the world plugin not loaded
WorldAtRest ==
    /\ cfgPc = "unloaded"
    /\ subscribed = FALSE
    /\ worldHasCoords = FALSE
    /\ topicWorldName = ""
    /\ createService = ""
    /\ performerService = ""
    /\ setSphericalCoordsService = ""
    /\ hasWorldLatLon = FALSE
    /\ pc = [t \in Threads |-> "idle"]
    /\ local = [t \in Threads |-> NoLocal]
    /\ processed = <<>>
    /\ requests = <<>>

\* TethysCommPlugin after Configure, lines 362-363
TethysAtRest ==
    /\ prevSubPrintTime = 0
    /\ prevPubPrintTime = 0
    /\ commands = <<>>
    /\ setpoints = <<>>
    /\ simTime = 0
    /\ updates = 0
    /\ stateMsgs = <<>>

\* Configure, lines 56-65: subscribe to the spawn topic
ConfigureSubscribe ==
    /\ cfgPc = "start"
    /\ \E ok \in BOOLEAN :
         /\ subscribed' = ok
         /\ cfgPc' = IF ok THEN "lookup" ELSE "aborted"
    /\ UNCHANGED <<tethysVars, finVars, commsVars>>
    /\ UNCHANGED <<worldHasCoords, topicWorldName, createService, performerService,
                   setSphericalCoordsService, hasWorldLatLon, pc, local,
                   processed, requests>>

\* Configure, lines 67-102: world name and its topic form
ConfigureWorldName ==
    /\ cfgPc = "lookup"
    /\ \E worldName \in WorldNames :
         IF worldName = "" \/ AsValidTopic(worldName) = ""
         THEN /\ cfgPc' = "aborted"
              /\ UNCHANGED topicWorldName
         ELSE /\ cfgPc' = "createService"
              /\ topicWorldName' = AsValidTopic(worldName)
    /\ UNCHANGED <<tethysVars, finVars, commsVars>>
    /\ UNCHANGED <<subscribed, worldHasCoords, createService, performerService,
                   setSphericalCoordsService, hasWorldLatLon, pc, local,
                   processed, requests>>

\* Configure, line 105
ConfigureCreateService ==
    /\ cfgPc = "createService"
    /\ createService' = "/world/" \o topicWorldName \o "/create"
    /\ cfgPc' = "performerService"
    /\ UNCHANGED <<tethysVars, finVars, commsVars>>
    /\ UNCHANGED <<subscribed, worldHasCoords, topicWorldName, performerService,
                   setSphericalCoordsService, hasWorldLatLon, pc, local,
                   processed, requests>>

\* Configure, line 106
ConfigurePerformerService ==
    /\ cfgPc = "performerService"
    /\ performerService' = "/world/" \o topicWorldName \o "/level/set_performer"
    /\ cfgPc' = "coordsService"
    /\ UNCHANGED <<tethysVars, finVars, commsVars>>
    /\ UNCHANGED <<subscribed, worldHasCoords, topicWorldName, createService,
                   setSphericalCoordsService, hasWorldLatLon, pc, local,
                   processed, requests>>

\* Configure, lines 107-108
ConfigureCoordsService ==
    /\ cfgPc = "coordsService"
    /\ setSphericalCoordsService' =
         "/world/" \o topicWorldName \o "/set_spherical_coordinates"
    /\ cfgPc' = "hasWorldLatLon"
    /\ UNCHANGED <<tethysVars, finVars, commsVars>>
    /\ UNCHANGED <<subscribed, worldHasCoords, topicWorldName, createService,
                   performerService, hasWorldLatLon, pc, local,
                   processed, requests>>

\* Configure, lines 113-114
ConfigureHasWorldLatLon ==
    /\ cfgPc = "hasWorldLatLon"
    /\ hasWorldLatLon' = worldHasCoords
    /\ cfgPc' = "done"
    /\ UNCHANGED <<tethysVars, finVars, commsVars>>
    /\ UNCHANGED <<subscribed, worldHasCoords, topicWorldName, createService,
                   performerService, setSphericalCoordsService, pc, local,
                   processed, requests>>

\* SpawnCallback, lines 132-143: the ID check, the coordinates and the read
\* of hasWorldLatLon that guards the origin block
\* faulty variant: the has_id_ test is missing
NextPcAfterEntryNoIdCheck(msg, flag) ==
    IF ~flag THEN "origin" ELSE "create"

NextPcAfterEntry(msg, flag) ==
    IF ~msg.hasId THEN "idle"
    ELSE IF ~flag THEN "origin" ELSE "create"

SpawnEntry(t, msg) ==
    /\ subscribed
    /\ pc[t] = "idle"
    /\ Len(processed) < MaxMsgs
    /\ processed' = Append(processed, msg)
    /\ requests' = Append(requests, <<>>)
    /\ pc' = [pc EXCEPT ![t] = NextPcAfterEntry(msg, hasWorldLatLon)]
    /\ local' = [local EXCEPT ![t] =
                   IF NextPcAfterEntry(msg, hasWorldLatLon) # "idle"
                   THEN [msg |-> Len(processed) + 1,
                         lat |-> msg.pos[1],
                         lon |-> msg.pos[2],
                         ele |-> -msg.pos[3]]
                   ELSE NoLocal]
    /\ UNCHANGED <<tethysVars, finVars, commsVars>>
    /\ UNCHANGED <<cfgPc, subscribed, worldHasCoords, topicWorldName, createService,
                   performerService, setSphericalCoordsService, hasWorldLatLon>>

\* a node.Request call made while thread t handles its message
Issue(t, req) ==
    [requests EXCEPT ![local[t].msg] = Append(@, req)]

\* faulty variant: the depth is taken as the elevation
OriginRequestDepthAsElevation(t, ok) ==
    [kind |-> "origin", service |-> setSphericalCoordsService,
     lat |-> local[t].lat, lon |-> local[t].lon,
     ele |-> -local[t].ele, heading |-> 0, data |-> "", accepted |-> ok]

\* SpawnCallback, lines 150-165: the set_spherical_coordinates request
OriginRequest(t, ok) ==
    [kind |-> "origin", service |-> setSphericalCoordsService,
     lat |-> local[t].lat, lon |-> local[t].lon,
     ele |-> local[t].ele, heading |-> 0, data |-> "", accepted |-> ok]

\* faulty variant: a refused origin request ends the callback
PcAfterOriginSkipsCreate(ok) == IF ok THEN "setFlag" ELSE "idle"

PcAfterOrigin(ok) == IF ok THEN "setFlag" ELSE "create"

SpawnRequestOrigin(t) ==
    /\ pc[t] = "origin"
    /\ \E ok \in RequestOutcomes(setSphericalCoordsService) :
         /\ requests' = Issue(t, OriginRequest(t, ok))
         /\ pc' = [pc EXCEPT ![t] = PcAfterOrigin(ok)]
         /\ local' = [local EXCEPT ![t] = IF PcAfterOrigin(ok) = "idle"
                                          THEN NoLocal ELSE @]
    /\ UNCHANGED <<tethysVars, finVars, commsVars>>
    /\ UNCHANGED <<cfgPc, subscribed, worldHasCoords, topicWorldName, createService,
                   performerService, setSphericalCoordsService, hasWorldLatLon,
                   processed>>

\* SpawnCallback, lines 166-169
SpawnSetFlag(t) ==
    /\ pc[t] = "setFlag"
    /\ hasWorldLatLon' = TRUE
    /\ pc' = [pc EXCEPT ![t] = "create"]
    /\ UNCHANGED <<tethysVars, finVars, commsVars>>
    /\ UNCHANGED <<cfgPc, subscribed, worldHasCoords, topicWorldName, createService,
                   performerService, setSphericalCoordsService, local,
                   processed, requests>>

\* SpawnCallback, lines 172-216: the create request. data is the model name
\* that TethysSdfString puts into the SDF string; the pose orientation depends
\* on the message alone and is left out; heading is not a field of it
CreateRequest(t, ok) ==
    [kind |-> "create", service |-> createService,
     lat |-> local[t].lat, lon |-> local[t].lon,
     ele |-> local[t].ele, heading |-> 0,
     data |-> processed[local[t].msg].id, accepted |-> ok]

\* faulty variant: the performer request does not depend on the create request
PcAfterCreateAlwaysPerformer(ok) == "performer"

PcAfterCreate(ok) == IF ok THEN "performer" ELSE "idle"

SpawnRequestCreate(t) ==
    /\ pc[t] = "create"
    /\ \E ok \in RequestOutcomes(createService) :
         /\ requests' = Issue(t, CreateRequest(t, ok))
         /\ pc' = [pc EXCEPT ![t] = PcAfterCreate(ok)]
         /\ local' = [local EXCEPT ![t] = IF PcAfterCreate(ok) = "idle"
                                          THEN NoLocal ELSE @]
    /\ UNCHANGED <<tethysVars, finVars, commsVars>>
    /\ UNCHANGED <<cfgPc, subscribed, worldHasCoords, topicWorldName, createService,
                   performerService, setSphericalCoordsService, hasWorldLatLon,
                   processed>>

\* SpawnCallback, lines 217-228: the set_performer request
PerformerRequest(t, ok) ==
    [kind |-> "performer", service |-> performerService,
     lat |-> 0, lon |-> 0, ele |-> 0, heading |-> 0,
     data |-> processed[local[t].msg].id, accepted |-> ok]

SpawnRequestPerformer(t) ==
    /\ pc[t] = "performer"
    /\ \E ok \in RequestOutcomes(performerService) :
         requests' = Issue(t, PerformerRequest(t, ok))
    /\ pc' = [pc EXCEPT ![t] = "idle"]
    /\ local' = [local EXCEPT ![t] = NoLocal]
    /\ UNCHANGED <<tethysVars, finVars, commsVars>>
    /\ UNCHANGED <<cfgPc, subscribed, worldHasCoords, topicWorldName, createService,
                   performerService, setSphericalCoordsService, hasWorldLatLon,
                   processed>>

SpawnCallback ==
    \E t \in Threads :
        \/ \E msg \in SpawnMsgs : SpawnEntry(t, msg)
        \/ SpawnRequestOrigin(t)
        \/ SpawnSetFlag(t)
        \/ SpawnRequestCreate(t)
        \/ SpawnRequestPerformer(t)

Configure ==
    \/ ConfigureSubscribe
    \/ ConfigureWorldName
    \/ ConfigureCreateService
    \/ ConfigurePerformerService
    \/ ConfigureCoordsService
    \/ ConfigureHasWorldLatLon

NextWorld == Configure \/ SpawnCallback

InitWorld == WorldStart /\ TethysAtRest /\ FinAtRest /\ CommsAtRest

SpecWorld == InitWorld /\ [][NextWorld]_vars

-----------------------------------------------------------------------------
(* Properties of WorldCommPlugin *)

MsgIdx == 1..Len(processed)

\* the requests of one kind made for message i
ReqsOf(i, kind) == {k \in 1..Len(requests[i]) : requests[i][k].kind = kind}

\* the callback handling message i has returned
Finished(i) == \A t \in Threads : ~(pc[t] # "idle" /\ local[t].msg = i)

\* the ID-bearing messages, and the first of them
Vehicles == {i \in MsgIdx : processed[i].hasId}
FirstVehicle == CHOOSE i \in Vehicles : \A j \in Vehicles : i <= j

\* request r carries the latitude, longitude and elevation of message m
CarriesCoordsOf(r, m) ==
    /\ r.lat = m.pos[1]
    /\ r.lon = m.pos[2]
    /\ r.ele = -m.pos[3]

AcceptedOrigins ==
    {<<i, k>> \in MsgIdx \X (1..3) :
        /\ k \in ReqsOf(i, "origin")
        /\ requests[i][k].accepted}

\* C1: when the world has no spherical coordinates at Configure time, every
\* set_spherical_coordinates request that is sent carries the latitude,
\* longitude and elevation of the first ID-bearing spawn message processed.
C1_OriginFromFirstVehicle ==
    ~worldHasCoords =>
        \A p \in AcceptedOrigins :
            CarriesCoordsOf(requests[p[1]][p[2]], processed[FirstVehicle])

\* C2: every spawn message that has an ID gets exactly one create request,
\* made by the time its callback returns, whatever happened to the origin
\* request; a message never gets a second one.
C2_OneCreatePerVehicle ==
    \A i \in MsgIdx :
        /\ Cardinality(ReqsOf(i, "create")) <= 1
        /\ (processed[i].hasId /\ Finished(i))
              => Cardinality(ReqsOf(i, "create")) = 1

\* a vehicle whose origin request was refused and whose callback has returned
C2_Witness ==
    \E i \in MsgIdx :
        /\ processed[i].hasId /\ Finished(i)
        /\ \E k \in ReqsOf(i, "origin") : ~requests[i][k].accepted
        /\ Cardinality(ReqsOf(i, "create")) = 1

\* C3: a set_performer request is made only after the create request of the
\* same message was accepted, it carries that message's ID, and a message
\* without ID or with a refused create request gets none.
C3_PerformerAfterAcceptedCreate ==
    \A i \in MsgIdx : \A k \in ReqsOf(i, "performer") :
        /\ processed[i].hasId
        /\ requests[i][k].data = processed[i].id
        /\ \E j \in ReqsOf(i, "create") : j < k /\ requests[i][j].accepted
        /\ \A j \in ReqsOf(i, "create") : requests[i][j].accepted

\* a set_performer request was made, and another vehicle's create request
\* was refused
C3_Witness ==
    /\ \E i \in MsgIdx : ReqsOf(i, "performer") # {}
    /\ \E i \in MsgIdx : /\ Finished(i)
                          /\ \E j \in ReqsOf(i, "create") : ~requests[i][j].accepted

\* the step in which a callback receives a message without ID
RejectStep ==
    /\ Len(processed') = Len(processed) + 1
    /\ ~processed'[Len(processed')].hasId

\* C8: a spawn message without ID has no effect: no request of any kind is
\* ever made for it, and the step that receives it leaves hasWorldLatLon and
\* every thread where it was.
C8_NoIdRejected ==
    /\ [][RejectStep => /\ hasWorldLatLon' = hasWorldLatLon
                        /\ pc' = pc
                        /\ requests' = Append(requests, <<>>)]_vars
    /\ [](\A i \in MsgIdx : ~processed[i].hasId => requests[i] = <<>>)

\* a message without ID was rejected and a later vehicle is given the
\* origin request of a first vehicle
C8_Witness ==
    \E i, j \in MsgIdx :
        /\ i < j
        /\ ~processed[i].hasId
        /\ processed[j].hasId
        /\ ReqsOf(j, "origin") # {}
        /\ requests[i] = <<>>

\* C9: if the world has spherical coordinates when Configure completes, no
\* set_spherical_coordinates request is ever made.
C9_NoOriginRequestWhenSdfOrigin ==
    (worldHasCoords /\ cfgPc = "done") =>
        \A i \in MsgIdx : ReqsOf(i, "origin") = {}

\* C10: at most one set_spherical_coordinates request is ever sent.
C10_AtMostOneOriginSent ==
    Cardinality(AcceptedOrigins) <= 1

\* C11: every set_spherical_coordinates request has heading 0 and an
\* elevation that is the negated initZ_ of its message, and the create request
\* of the same message carries the same latitude, longitude and elevation.
C11_OriginHeadingAndElevation ==
    \A i \in MsgIdx : \A k \in ReqsOf(i, "origin") :
        /\ requests[i][k].heading = 0
        /\ requests[i][k].ele = -processed[i].pos[3]
        /\ \A j \in ReqsOf(i, "create") :
              /\ requests[i][j].lat = requests[i][k].lat
              /\ requests[i][j].lon = requests[i][k].lon
              /\ requests[i][j].ele = requests[i][k].ele

\* a vehicle spawned at a depth got an origin request and a create request
C11_Witness ==
    \E i \in MsgIdx :
        /\ processed[i].pos[3] > 0
        /\ ReqsOf(i, "origin") # {}
        /\ ReqsOf(i, "create") # {}

\* C12: every request is made on a service name that Configure has set to
\* /world/<valid world name>/...; none is made on an empty service name.
C12_NoRequestOnUnsetService ==
    \A i \in MsgIdx : \A k \in 1..Len(requests[i]) :
        /\ requests[i][k].service # ""
        /\ requests[i][k].service =
              "/world/lrauv_world" \o
                (CASE requests[i][k].kind = "origin" -> "/set_spherical_coordinates"
                   [] requests[i][k].kind = "create" -> "/create"
                   [] OTHER -> "/level/set_performer")

-----------------------------------------------------------------------------
(* TethysCommPlugin *)

\* LRAUVCommand messages; the actions are in the units of the message, time_
\* is in tenths of a second so that it has a fractional part
Commands ==
    { [rudderAngleAction_ |-> -1, elevatorAngleAction_ |-> 2,
       propOmegaAction_ |-> 30, time_ |-> 0],
      [rudderAngleAction_ |-> 3, elevatorAngleAction_ |-> 3,
       propOmegaAction_ |-> -30, time_ |-> 15],
      [rudderAngleAction_ |-> 0, elevatorAngleAction_ |-> -2,
       propOmegaAction_ |-> 0, time_ |-> 29],
      [rudderAngleAction_ |-> 2, elevatorAngleAction_ |-> -1,
       propOmegaAction_ |-> 60, time_ |-> 41],
      [rudderAngleAction_ |-> 1, elevatorAngleAction_ |-> 0,
       propOmegaAction_ |-> -60, time_ |-> -5] }

\* simulation time added by one step, in milliseconds (0: the simulation is
\* paused and PostUpdate runs with the same simTime)
StepSizes == {0, 400, 1500}

\* Z of the model link's world pose, read from the ECM
PoseZs == {-5, 0}

\* int(floor(_msg.time_())), lines 436 and 448
FloorSeconds(time) == time \div 10

\* lines 436-449: the debug print is due; 1000 ms is one second
SubPrintDue(time, prev) == FloorSeconds(time) - prev > 1

\* lines 467-471: the force for the thruster, in units of
\* 7.879 * 1000 * 0.0016 / (60 * 2 * pi)^2
ThrusterForce(propOmega) ==
    IF propOmega < 0 THEN propOmega * propOmega ELSE -(propOmega * propOmega)

RudderSetpoint(msg) == [topic |-> "rudder", data |-> msg.rudderAngleAction_]

\* faulty variant: the elevator is given the rudder's field
ElevatorSetpointFromRudder(msg) ==
    [topic |-> "elevator", data |-> msg.rudderAngleAction_]

ElevatorSetpoint(msg) == [topic |-> "elevator", data |-> msg.elevatorAngleAction_]

ThrusterSetpoint(msg) ==
    [topic |-> "thruster", data |-> ThrusterForce(msg.propOmegaAction_)]

\* lines 451-472: the three Publish calls, in order
CommandSetpoints(msg) ==
    <<RudderSetpoint(msg), ElevatorSetpoint(msg), ThrusterSetpoint(msg)>>

\* TethysCommPlugin::CommandCallback, lines 432-473
CommandCallback(msg) ==
    /\ Len(commands) < MaxCmds
    /\ commands' = Append(commands, msg)
    /\ prevSubPrintTime' = IF SubPrintDue(msg.time_, prevSubPrintTime)
                           THEN FloorSeconds(msg.time_)
                           ELSE prevSubPrintTime
    /\ setpoints' = Append(setpoints, CommandSetpoints(msg))
    /\ UNCHANGED <<prevPubPrintTime, simTime, updates, stateMsgs>>
    /\ UNCHANGED <<worldVars, finVars, commsVars>>

\* std::chrono::milliseconds(1000), line 518
PrintPeriodMs == 1000

\* the literal of line 499
NanosPerSec == 1000000000

\* 32-bit words as <<high, low>> 16-bit halves: the low 32 bits of the 64-bit
\* values the code computes
ToU32(v) == <<(v \div 65536) % 65536, v % 65536>>

\* the low 32 bits of a * c, for a natural number a below 2^15
MulU32(a, c) ==
    LET p == a * c[2]
    IN  <<(a * c[1] + p \div 65536) % 65536, p % 65536>>

\* the low 32 bits of x - y
SubU32(x, y) ==
    LET lo == x[2] - y[2]
        borrow == IF lo < 0 THEN 1 ELSE 0
    IN  <<(x[1] - y[1] - borrow) % 65536, lo % 65536>>

\* conversion of a 32-bit word to int (two's complement)
ToInt32(x) == (IF x[1] >= 32768 THEN x[1] - 65536 ELSE x[1]) * 65536 + x[2]

\* line 496: duration_cast<seconds>(simTime).count()
StampSec(now) == now \div 1000

\* line 498: int(duration_cast<nanoseconds>(simTime).count())
NanosAsInt(now) == ToInt32(MulU32(now, ToU32(1000000)))

\* faulty variant: the whole seconds are not subtracted
StampNsecWithoutSeconds(now) == NanosAsInt(now)

\* lines 497-499: the int minus sec * 1000000000, stored in the 32-bit nsec
StampNsec(now) ==
    ToInt32(SubU32(ToU32(NanosAsInt(now)),
                   MulU32(StampSec(now), ToU32(NanosPerSec))))

\* lines 518-524: the debug print is due
PubPrintDue(now, prev) == now - prev > PrintPeriodMs

\* lines 493-516: the state message (stamp and depth); the other fields are
\* copies of what the ECM holds for the links
StateMsg(now, z) ==
    [sec |-> StampSec(now), nsec |-> StampNsec(now), depth_ |-> -z]

\* faulty variant: the state is published inside the rate-limited block
StatePublishedWhenPrintDue(now, z) ==
    IF PubPrintDue(now, prevPubPrintTime) THEN <<StateMsg(now, z)>> ELSE <<>>

\* the state messages one PostUpdate call publishes
StatePublished(now, z) == <<StateMsg(now, z)>>

\* TethysCommPlugin::PostUpdate, lines 482-525, with the step that precedes it
PostUpdate(dt, z) ==
    /\ updates < MaxSteps
    /\ simTime' = simTime + dt
    /\ updates' = updates + 1
    /\ stateMsgs' = stateMsgs \o StatePublished(simTime', z)
    /\ prevPubPrintTime' = IF PubPrintDue(simTime', prevPubPrintTime)
                           THEN simTime'
                           ELSE prevPubPrintTime
    /\ UNCHANGED <<prevSubPrintTime, commands, setpoints>>
    /\ UNCHANGED <<worldVars, finVars, commsVars>>

NextTethys ==
    \/ \E msg \in Commands : CommandCallback(msg)
    \/ \E dt \in StepSizes, z \in PoseZs : PostUpdate(dt, z)

InitTethys == WorldAtRest /\ TethysAtRest /\ FinAtRest /\ CommsAtRest

SpecTethys == InitTethys /\ [][NextTethys]_vars

-----------------------------------------------------------------------------
(* Properties of TethysCommPlugin *)

\* C5: every command message is republished as exactly one rudder setpoint,
\* then one elevator setpoint, then one thruster setpoint; the rudder and
\* elevator data are the message's rudderAngleAction_ and
\* elevatorAngleAction_, the thruster data depends on propOmegaAction_ alone
\* (its square, with the opposite sign); this holds whatever time_ and
\* prevSubPrintTime are.
C5_CommandRepublished ==
    /\ Len(setpoints) = Len(commands)
    /\ \A i \in 1..Len(commands) :
         LET sp == setpoints[i]
             cmd == commands[i]
         IN  /\ Len(sp) = 3
             /\ sp[1].topic = "rudder"
             /\ sp[1].data = cmd.rudderAngleAction_
             /\ sp[2].topic = "elevator"
             /\ sp[2].data = cmd.elevatorAngleAction_
             /\ sp[3].topic = "thruster"
             /\ sp[3].data * sp[3].data
                   = cmd.propOmegaAction_ * cmd.propOmegaAction_
                       * cmd.propOmegaAction_ * cmd.propOmegaAction_
             /\ (cmd.propOmegaAction_ > 0 => sp[3].data < 0)
             /\ (cmd.propOmegaAction_ < 0 => sp[3].data > 0)

\* two commands were republished: the first moved prevSubPrintTime, the
\* second was not due for a debug print and left it alone
C5_Witness ==
    /\ Len(commands) = 2
    /\ Len(setpoints[2]) = 3
    /\ prevSubPrintTime # 0
    /\ prevSubPrintTime = FloorSeconds(commands[1].time_)
    /\ FloorSeconds(commands[2].time_) # prevSubPrintTime
    /\ commands[2].rudderAngleAction_ # commands[2].elevatorAngleAction_

\* C6: every PostUpdate call publishes exactly one state message, whether or
\* not the debug print is due; prevPubPrintTime becomes the current simTime
\* when more than 1000 ms of sim time passed since its last value and is
\* left alone otherwise.
C6_StatePublishedEveryStep ==
    /\ [](Len(stateMsgs) = updates)
    /\ [][updates' = updates + 1 =>
            /\ Len(stateMsgs') = Len(stateMsgs) + 1
            /\ prevPubPrintTime' = IF simTime' - prevPubPrintTime > 1000
                                   THEN simTime' ELSE prevPubPrintTime]_vars

\* a state message was published by a step for which the print was not due,
\* after a step for which it was
C6_Witness ==
    /\ updates >= 2
    /\ Len(stateMsgs) = updates
    /\ prevPubPrintTime > 0
    /\ prevPubPrintTime < simTime

\* C13: the stamp of the state message published for a simulation time has
\* sec = the whole seconds of simTime, 0 <= nsec < 10^9 and
\* sec * 10^9 + nsec = simTime in nanoseconds, also when the nanosecond count
\* does not fit a 32-bit int. simTime is in milliseconds here, so the last
\* equation reads nsec = (milliseconds past the whole second) * 10^6.
C13_StampMatchesSimTime ==
    stateMsgs # <<>> =>
        LET stamp == stateMsgs[Len(stateMsgs)]
        IN  /\ stamp.sec = simTime \div 1000
            /\ stamp.nsec >= 0
            /\ stamp.nsec < 1000000000
            /\ stamp.nsec = (simTime % 1000) * 1000000

\* a state message was published at a simulation time whose nanosecond count
\* (more than 2^32) fits neither a signed nor an unsigned 32-bit integer, and
\* that is no whole number of seconds
C13_Witness ==
    /\ stateMsgs # <<>>
    /\ Len(stateMsgs) = updates
    /\ simTime > 4294
    /\ simTime % 1000 # 0

-----------------------------------------------------------------------------
(* FinLiftDragPrivateData::interpolate *)

\* angles of attack that are keys of a coefficient table
TableAngles == {-10, 0, 10}

\* tabulated coefficients
TableCoeffs == {1, 2}

\* angles interpolate is asked about
QueryAngles == {-15, -10, -5, 0, 5, 10, 15}

\* std::map<double, double>: createSpline returns the points of the SDF, or
\* an empty map
SplineTables == UNION {[keys -> TableCoeffs] : keys \in SUBSET TableAngles}

\* what an indeterminate double may turn out to be
IndeterminateValues == {-7, 0, 1, 2}

Indeterminate == {[defined |-> FALSE, value |-> v] : v \in IndeterminateValues}

\* _spline.upper_bound(_angle), line 55: the keys after _angle
KeysAfter(table, a) == {k \in DOMAIN table : k > a}

MinKey(keys) == CHOOSE k \in keys : \A other \in keys : k <= other

\* lines 54-66: rightVal and rightAng; with an empty map begin() is end()
\* and reading through it gives indeterminate values
RightPoints(table, a) ==
    IF KeysAfter(table, a) # {}
    THEN {[val |-> table[MinKey(KeysAfter(table, a))],
           ang |-> MinKey(KeysAfter(table, a))]}
    ELSE IF DOMAIN table # {}
    THEN {[val |-> table[MinKey(DOMAIN table)], ang |-> MinKey(DOMAIN table)]}
    ELSE {[val |-> v, ang |-> v] : v \in IndeterminateValues}

\* lines 49-52: the angle is a key of the table
IsTabulated(table, a) == a \in DOMAIN table

\* lines 44-70: the value the caller receives (left, line 69, is not used): the tabulated coefficient for
\* a key; for any other angle control reaches the closing brace of line 70
\* without a return statement and the value is indeterminate
InterpolateResults(table, a) ==
    IF IsTabulated(table, a)
    THEN {[defined |-> TRUE, value |-> table[a]]}
    ELSE Indeterminate

\* FinLiftDragPrivateData::interpolate, lines 44-70
Interpolate ==
    /\ finPc = "call"
    /\ finPc' = "returned"
    /\ coeff' \in InterpolateResults(spline, angle)
    /\ IF IsTabulated(spline, angle)
       THEN UNCHANGED rightPoint
       ELSE rightPoint' \in RightPoints(spline, angle)
    /\ UNCHANGED <<spline, angle>>
    /\ UNCHANGED <<worldVars, tethysVars, commsVars>>

FinStart ==
    /\ finPc = "call"
    /\ spline \in SplineTables
    /\ angle \in QueryAngles
    /\ rightPoint = [val |-> 0, ang |-> 0]
    /\ coeff = [defined |-> FALSE, value |-> 0]

InitFin == WorldAtRest /\ TethysAtRest /\ FinStart /\ CommsAtRest

NextFin == Interpolate

SpecFin == InitFin /\ [][NextFin]_vars

-----------------------------------------------------------------------------
(* Properties of FinLiftDragPrivateData::interpolate *)

\* C7: interpolate returns a defined value for every angle and every
\* non-empty table, and for an angle that is a key of the table it returns
\* that key's coefficient.
C7_InterpolateDefined ==
    (finPc = "returned" /\ DOMAIN spline # {}) =>
        /\ coeff.defined
        /\ (angle \in DOMAIN spline => coeff.value = spline[angle])

-----------------------------------------------------------------------------
(* CommsPacket conversions, as exercised by CommsPacketConversions *)

\* acoustic addresses
Addresses == {20, 30}

\* LRAUVAcousticMessage::MessageType
ExternalTypes == {"RangeRequest", "RangeResponse", "Other"}

\* payloads
Payloads == {"test_message", ""}

\* sender positions
TxPositions == {<<0, 0, 1>>, <<3, -4, 0>>}

\* times of transmission, in nanoseconds since the clock's epoch
TxTimes == {0, 999999999, 1000000000, 1500000001}

AcousticMsgs ==
    [to : Addresses, from : Addresses, type : ExternalTypes, data : Payloads]

\* faulty variant: every message becomes a data packet
PacketTypeOfAllData(type) == "DATA"

\* message type of the wire message -> CommsPacket::MsgType
PacketTypeOf(type) ==
    CASE type = "RangeRequest"  -> "RANGE_REQUEST"
      [] type = "RangeResponse" -> "RANGE_RESPONSE"
      [] OTHER                  -> "DATA"

\* CommsPacket::MsgType -> message type of the wire message
WireTypeOf(type) ==
    CASE type = "RANGE_REQUEST"  -> "RangeRequest"
      [] type = "RANGE_RESPONSE" -> "RangeResponse"
      [] OTHER                   -> "Other"

\* time of transmission -> header stamp of the internal message
StampOf(time) ==
    [sec |-> time \div NanosPerSec, nsec |-> time % NanosPerSec]

\* header stamp of the internal message -> time of transmission
TimeOfStamp(stamp) == stamp.sec * NanosPerSec + stamp.nsec

\* CommsPacket::make(external message, position, time of transmission)
MakeFromExternal(m, position, time) ==
    [to |-> m.to, from |-> m.from, type |-> PacketTypeOf(m.type),
     data |-> m.data, position |-> position, timeOfTx |-> time]

\* CommsPacket::ToInternalMsg
ToInternalMsg(p) ==
    [to |-> p.to, from |-> p.from, type |-> WireTypeOf(p.type), data |-> p.data,
     position |-> [x |-> p.position[1], y |-> p.position[2], z |-> p.position[3]],
     header |-> [stamp |-> StampOf(p.timeOfTx)]]

\* CommsPacket::make(internal message)
MakeFromInternal(m) ==
    [to |-> m.to, from |-> m.from, type |-> PacketTypeOf(m.type),
     data |-> m.data,
     position |-> <<m.position.x, m.position.y, m.position.z>>,
     timeOfTx |-> TimeOfStamp(m.header.stamp)]

\* CommsPacket::ToExternalMsg
ToExternalMsg(p) ==
    [to |-> p.to, from |-> p.from, type |-> WireTypeOf(p.type), data |-> p.data]

\* line 368 of the test
CommsMake ==
    /\ commsPc = "make"
    /\ packet' = MakeFromExternal(acousticMsg, txPos, txTime)
    /\ commsPc' = "encode"
    /\ UNCHANGED <<acousticMsg, txPos, txTime, encoded, packet2, decoded>>
    /\ UNCHANGED <<worldVars, tethysVars, finVars>>

\* line 369 of the test
CommsEncode ==
    /\ commsPc = "encode"
    /\ encoded' = ToInternalMsg(packet)
    /\ commsPc' = "remake"
    /\ UNCHANGED <<acousticMsg, txPos, txTime, packet, packet2, decoded>>
    /\ UNCHANGED <<worldVars, tethysVars, finVars>>

\* line 370 of the test
CommsRemake ==
    /\ commsPc = "remake"
    /\ packet2' = MakeFromInternal(encoded)
    /\ commsPc' = "decode"
    /\ UNCHANGED <<acousticMsg, txPos, txTime, packet, encoded, decoded>>
    /\ UNCHANGED <<worldVars, tethysVars, finVars>>

\* line 374 of the test
CommsDecode ==
    /\ commsPc = "decode"
    /\ decoded' = ToExternalMsg(packet)
    /\ commsPc' = "done"
    /\ UNCHANGED <<acousticMsg, txPos, txTime, packet, encoded, packet2>>
    /\ UNCHANGED <<worldVars, tethysVars, finVars>>

\* lines 360-367 of the test, with the message, position and time drawn from
\* their sets
CommsStart ==
    /\ commsPc = "make"
    /\ acousticMsg \in AcousticMsgs
    /\ txPos \in TxPositions
    /\ txTime \in TxTimes
    /\ packet = <<>>
    /\ encoded = <<>>
    /\ packet2 = <<>>
    /\ decoded = <<>>

InitComms == WorldAtRest /\ TethysAtRest /\ FinAtRest /\ CommsStart

NextComms == CommsMake \/ CommsEncode \/ CommsRemake \/ CommsDecode

SpecComms == InitComms /\ [][NextComms]_vars

-----------------------------------------------------------------------------
(* Properties of the CommsPacket conversions *)

=============================================================================
